---- MODULE Spec2Model ----
(***************************************************************************)
(* apipe: CommandPipe (src/src/pipe.rs).                                   *)
(*                                                                         *)
(* A CommandPipe owns an ordered list of Commands (pipeline), the handle   *)
(* of the most recently spawned child (last_spawned) and the memoized      *)
(* Output (output).  spawn() starts the stages one after the other, each   *)
(* reading the stdout of the handle held in last_spawned, and waits for    *)
(* every child before it starts the next one.  output() reaps the handle   *)
(* in last_spawned into the memoized Output.                               *)
(*                                                                         *)
(* The operating system is the environment: whether a process can be       *)
(* started, when it exits and with which status, whether it blocks on its  *)
(* full stdout pipe, and whether a wait or a drain fails is chosen         *)
(* nondeterministically.                                                   *)
(***************************************************************************)
EXTENDS Integers, Sequences, FiniteSets, TLC

\* ------------------------------------------------------------------ bounds
MaxCalls == 4         \* stages and arguments added plus spawn() calls made
MaxTextLen == 4       \* longest text given to try_from
MaxLiveCalls == 3     \* as MaxCalls, for the behaviours of SpecLive

Programs == {"a"}
ArgVals == {"x", "y"}
ExitCodes == {0, 1}
StartErrors == {"NotFound", "PermissionDenied"}   \* io::Error of spawn()
WaitErrors == {"Interrupted"}                     \* io::Error of a wait
OsErrors == StartErrors \cup WaitErrors
Alphabet == {"a", "b", " ", "|"}

\* --------------------------------------------------------- values and types
\* Option<T> is a sequence of length at most one.
None == <<>>
Some(v) == <<v>>
IsSome(o) == o # <<>>
Unwrap(o) == o[1]

\* Result<T, APipeError>
NoVal == [none |-> TRUE]
Ok(v) == [ok |-> TRUE, val |-> v, err |-> NoVal]
Err(e) == [ok |-> FALSE, val |-> NoVal, err |-> e]
Unit == [unit |-> TRUE]

\* APipeError::ChildProcess(io::Error, &'static str) and ::NoRunningProcesses
ChildProcess(e, msg) == [kind |-> "ChildProcess", os |-> e, msg |-> msg]
NoRunningProcesses == [kind |-> "NoRunningProcesses", os |-> "", msg |-> ""]
MsgSpawn == "Failed to spawn child command"
MsgWait == "Child process exited with error code."

\* A Command: program and arguments.
NewCommand(p) == [program |-> p, args |-> <<>>]
CmdArg(cmd, a) == [cmd EXCEPT !.args = Append(@, a)]
CmdArgs(cmd, as) == [cmd EXCEPT !.args = @ \o as]

\* Stdio: the null device, or the read end of the stdout pipe of a process.
NoStdio == [kind |-> "unset", from |-> 0]
StdioNull == [kind |-> "null", from |-> 0]
StdioFrom(pid) == [kind |-> "pipe", from |-> pid]

\* A Child handle: the process it belongs to and whether its stdout slot
\* still holds the read end of the pipe.
Child(pid) == [pid |-> pid, stdout |-> TRUE]

VARIABLES
    pipeline,       \* Vec<Command>
    last_spawned,   \* Option<Child>
    output,         \* Option<Output>
    pc,             \* position of the single caller thread
    call,           \* the public method being executed ("" when idle)
    idx,            \* spawn(): 1-based index of the stage of this iteration
    std,            \* spawn(): the handle taken from last_spawned (closure arg)
    stdin,          \* spawn(): the Stdio computed for this stage
    child,          \* spawn(): the Child just started
    last_proc,      \* output(): the handle taken from last_spawned
    reaped,         \* output(): whether this call consumed a handle
    procs,          \* every OS process ever started, by pid
    spawnCalls,     \* number of spawn() calls begun
    ret,            \* what the last finished call returned
    prev,           \* what the call before it returned
    lastSpawn,      \* what the last finished spawn() returned (None: never)
    text,           \* try_from: the text given
    parsed          \* try_from: the Result returned

vars == <<pipeline, last_spawned, output, pc, call, idx, std, stdin, child,
          last_proc, reaped, procs, spawnCalls, ret, prev, lastSpawn, text, parsed>>

pipeVars == <<pipeline, last_spawned, output>>
localVars == <<idx, std, stdin, child, last_proc, reaped>>
histVars == <<ret, prev, lastSpawn>>
tryVars == <<text, parsed>>

\* A finished call: the method, its result, the stage whose start failed (0:
\* none), the number of processes started so far and whether the call
\* consumed a handle.
NoCall == [op |-> "", res |-> Ok(Unit), stage |-> 0, nprocs |-> 0,
           reaped |-> FALSE]

\* CommandPipe::new()
NewPipe == [pipeline |-> <<>>, last_spawned |-> None, output |-> None]

Init ==
    /\ pipeline = NewPipe.pipeline
    /\ last_spawned = NewPipe.last_spawned
    /\ output = NewPipe.output
    /\ pc = "idle"
    /\ call = ""
    /\ idx = 0
    /\ std = None
    /\ stdin = NoStdio
    /\ child = None
    /\ last_proc = None
    /\ reaped = FALSE
    /\ procs = <<>>
    /\ spawnCalls = 0
    /\ ret = NoCall
    /\ prev = NoCall
    /\ lastSpawn = None
    /\ text = <<>>
    /\ parsed = None

\* What a behaviour has used of MaxCalls: the stages and arguments it added
\* and the spawn() calls it made.
RECURSIVE ArgCount(_)
ArgCount(p) == IF p = <<>> THEN 0 ELSE Len(p[1].args) + ArgCount(Tail(p))
Used == Len(pipeline) + ArgCount(pipeline) + spawnCalls

\* ----------------------------------------------------------------- builders
PushCommand(cmd) ==
    /\ pc = "idle"
    /\ Used + 1 + Len(cmd.args) <= MaxCalls
    /\ pipeline' = Append(pipeline, cmd)
    /\ UNCHANGED <<last_spawned, output, pc, call, localVars, procs,
                   spawnCalls, histVars, tryVars>>

add_command(c) == PushCommand(NewCommand(c))

\* Mutant of bitor: the operator builds its result as a fresh pipe around the
\* extended pipeline.
bitor_fresh(rhs) ==
    /\ pc = "idle"
    /\ Used + 1 + Len(rhs.args) <= MaxCalls
    /\ pipeline' = Append(pipeline, rhs)
    /\ last_spawned' = None
    /\ output' = None
    /\ UNCHANGED <<pc, call, localVars, procs, spawnCalls, histVars, tryVars>>

bitor(rhs) == PushCommand(rhs)

\* Mutant of SetLast: without a stage the call returns and does nothing.
SetLast_lenient(cmd) ==
    /\ pc = "idle"
    /\ IF pipeline = <<>>
       THEN UNCHANGED pipeline
       ELSE pipeline' = [pipeline EXCEPT ![Len(pipeline)] = cmd]
    /\ UNCHANGED <<last_spawned, output, pc, call, localVars, procs,
                   spawnCalls, histVars, tryVars>>

\* Mutant of SetLast: first_mut() instead of last_mut().
SetLast_first(cmd) ==
    /\ pc = "idle"
    /\ IF pipeline = <<>>
       THEN /\ pc' = "panic"
            /\ UNCHANGED pipeline
       ELSE /\ pipeline' = [pipeline EXCEPT ![1] = cmd]
            /\ UNCHANGED pc
    /\ UNCHANGED <<last_spawned, output, call, localVars, procs,
                   spawnCalls, histVars, tryVars>>

\* l.98-101, l.121-124: self.pipeline.last_mut().expect(..).arg(..): the
\* last stage is replaced by `cmd`; on an empty pipeline expect() panics.
SetLast(cmd) ==
    /\ pc = "idle"
    /\ IF pipeline = <<>>
       THEN /\ pc' = "panic"
            /\ UNCHANGED pipeline
       ELSE /\ pipeline' = [pipeline EXCEPT ![Len(pipeline)] = cmd]
            /\ UNCHANGED pc
    /\ UNCHANGED <<last_spawned, output, call, localVars, procs,
                   spawnCalls, histVars, tryVars>>

LastCommand == pipeline[Len(pipeline)]

arg(a) ==
    /\ Used + 1 <= MaxCalls
    /\ SetLast(CmdArg(LastCommand, a))

args(as) ==
    /\ Used + Len(as) <= MaxCalls
    /\ SetLast(CmdArgs(LastCommand, as))

\* -------------------------------------------------------------------- calls
\* The caller gets `res` back from the public method it called.
Return(res, stage) ==
    /\ pc' = "idle"
    /\ call' = ""
    /\ prev' = ret
    /\ ret' = [op |-> call, res |-> res, stage |-> stage,
               nprocs |-> Len(procs), reaped |-> reaped]
    /\ idx' = 0
    /\ std' = None
    /\ stdin' = NoStdio
    /\ child' = None
    /\ last_proc' = None
    /\ reaped' = FALSE

\* -------------------------------------------------------------------- spawn
Enter(op) ==
    /\ pc = "idle"
    /\ Used + 1 <= MaxCalls
    /\ call' = op
    /\ spawnCalls' = spawnCalls + 1
    /\ idx' = 1
    /\ pc' = "loop"
    /\ UNCHANGED <<pipeVars, std, stdin, child, last_proc, reaped, procs,
                   histVars, tryVars>>

spawn_call == Enter("spawn")

spawn_with_output_call == Enter("spawn_with_output")

\* Mutant of spawn_take: the handle is looked at, not taken.
spawn_take_keep ==
    /\ pc = "loop"
    /\ idx <= Len(pipeline)
    /\ std' = last_spawned
    /\ pc' = "stdin"
    /\ UNCHANGED <<pipeVars, call, idx, stdin, child, last_proc, reaped,
                   procs, spawnCalls, histVars, tryVars>>

\* l.144: self.last_spawned.take() hands the handle to the closure
spawn_take ==
    /\ pc = "loop"
    /\ idx <= Len(pipeline)
    /\ std' = last_spawned
    /\ last_spawned' = None
    /\ pc' = "stdin"
    /\ UNCHANGED <<pipeline, output, call, idx, stdin, child, last_proc,
                   reaped, procs, spawnCalls, histVars, tryVars>>

\* l.144-146: map_or(Stdio::null(), |mut std| std.stdout.take().map_or(..))
StdinOf(taken) ==
    IF IsSome(taken) /\ Unwrap(taken).stdout
    THEN StdioFrom(Unwrap(taken).pid)
    ELSE StdioNull

\* the closure returns: `std` is dropped (dropping a Child neither kills
\* nor waits for the process)
spawn_stdin ==
    /\ pc = "stdin"
    /\ stdin' = StdinOf(std)
    /\ std' = None
    /\ pc' = "start"
    /\ UNCHANGED <<pipeVars, call, idx, child, last_proc, reaped, procs,
                   spawnCalls, histVars, tryVars>>

\* The process the OS creates for stage idx of this call.
NewProc ==
    [stage |-> idx, call |-> spawnCalls, stdin |-> stdin, stdout |-> "piped",
     state |-> "running", status |-> -1, waited |-> 0]

\* Mutant of spawn_start_ok: the handle is stored without the wait.
spawn_start_ok_nowait ==
    /\ pc = "start"
    /\ procs' = Append(procs, NewProc)
    /\ child' = Some(Child(Len(procs) + 1))
    /\ stdin' = NoStdio
    /\ pc' = "replace"
    /\ UNCHANGED <<pipeVars, call, idx, std, last_proc, reaped, spawnCalls,
                   histVars, tryVars>>

\* l.148-153: the OS creates the process
spawn_start_ok ==
    /\ pc = "start"
    /\ procs' = Append(procs, NewProc)
    /\ child' = Some(Child(Len(procs) + 1))
    /\ stdin' = NoStdio
    /\ pc' = "wait"
    /\ UNCHANGED <<pipeVars, call, idx, std, last_proc, reaped, spawnCalls,
                   histVars, tryVars>>

\* What spawn() does with a result of Err: `?` returns it to the caller.
SpawnFails(e, stage, os) ==
    /\ lastSpawn' = Some([res |-> Err(e), stage |-> stage, os |-> os,
                          id |-> spawnCalls, n |-> Len(pipeline)])
    /\ Return(Err(e), stage)
    /\ UNCHANGED <<pipeVars, procs, spawnCalls, tryVars>>

\* Mutant of StartError: the OS error is dropped.
StartErrorNoCause(e) == ChildProcess("", MsgSpawn)

\* l.153: .map_err(|e| ChildProcess(e, "Failed to spawn child command"))?
StartError(e) == ChildProcess(e, MsgSpawn)

\* Mutant of spawn_start_err: the failure is swallowed and the loop goes on
\* with the next stage.
spawn_start_err_skip(e) ==
    /\ pc = "start"
    /\ stdin' = NoStdio
    /\ idx' = idx + 1
    /\ pc' = "loop"
    /\ UNCHANGED <<pipeVars, call, std, child, last_proc, reaped, procs,
                   spawnCalls, histVars, tryVars>>

\* l.148-153: the OS cannot create the process
spawn_start_err(e) ==
    /\ pc = "start"
    /\ SpawnFails(StartError(e), idx, e)

\* Mutant of WaitReturns: the wait does not block (as try_wait would).
WaitReturnsAtOnce(p) == TRUE

\* l.155: child.wait() returns once the process has terminated
WaitReturns(p) == p.state = "exited"

\* Mutant of spawn_wait_ok: a non-zero exit status is returned as an error.
spawn_wait_ok_strict ==
    /\ pc = "wait"
    /\ WaitReturns(procs[Unwrap(child).pid])
    /\ IF procs[Unwrap(child).pid].status = 0
       THEN /\ procs' = [procs EXCEPT ![Unwrap(child).pid].waited = @ + 1]
            /\ pc' = "replace"
            /\ UNCHANGED <<pipeVars, call, localVars, spawnCalls, histVars,
                           tryVars>>
       ELSE SpawnFails(ChildProcess("ExitStatus", MsgWait), 0, "ExitStatus")

\* Mutant of spawn_wait_ok: the process is polled (as with try_wait) and the
\* loop goes on whether or not it has terminated.
spawn_wait_ok_poll ==
    /\ pc = "wait"
    /\ procs' = [procs EXCEPT ![Unwrap(child).pid].waited = @ + 1]
    /\ pc' = "replace"
    /\ UNCHANGED <<pipeVars, call, localVars, spawnCalls, histVars, tryVars>>

\* l.155-159: the wait succeeds, whatever the exit status
spawn_wait_ok ==
    /\ pc = "wait"
    /\ WaitReturns(procs[Unwrap(child).pid])
    /\ procs' = [procs EXCEPT ![Unwrap(child).pid].waited = @ + 1]
    /\ pc' = "replace"
    /\ UNCHANGED <<pipeVars, call, localVars, spawnCalls, histVars, tryVars>>

\* l.155-157: .map_err(|e| ChildProcess(e, "Child process exited with
\* error code."))?
WaitError(e) == ChildProcess(e, MsgWait)

\* l.155-157: the wait itself fails; wait() blocks for as long as the
\* process lives, so it returns an error no earlier than it would return
\* the exit status
spawn_wait_err(e) ==
    /\ pc = "wait"
    /\ WaitReturns(procs[Unwrap(child).pid])
    /\ SpawnFails(WaitError(e), 0, e)

\* l.159: self.last_spawned.replace(child)
spawn_replace ==
    /\ pc = "replace"
    /\ last_spawned' = child
    /\ child' = None
    /\ idx' = idx + 1
    /\ pc' = "loop"
    /\ UNCHANGED <<pipeline, output, call, std, stdin, last_proc, reaped,
                   procs, spawnCalls, histVars, tryVars>>

\* Mutant of spawn_return: a pipe without stages is refused.
spawn_return_strict ==
    /\ pc = "loop"
    /\ idx > Len(pipeline)
    /\ IF pipeline = <<>>
       THEN SpawnFails(NoRunningProcesses, 0, "")
       ELSE /\ lastSpawn' = Some([res |-> Ok(Unit), stage |-> 0, os |-> "",
                                  id |-> spawnCalls, n |-> Len(pipeline)])
            /\ IF call = "spawn"
               THEN /\ Return(Ok(Unit), 0)
               ELSE /\ pc' = "output"
                    /\ idx' = 0
                    /\ UNCHANGED <<call, std, stdin, child, last_proc,
                                   reaped, ret, prev>>
            /\ UNCHANGED <<pipeVars, procs, spawnCalls, tryVars>>

\* l.162: Ok(()); spawn_with_output goes on with self.output() (l.181)
spawn_return ==
    /\ pc = "loop"
    /\ idx > Len(pipeline)
    /\ lastSpawn' = Some([res |-> Ok(Unit), stage |-> 0, os |-> "",
                          id |-> spawnCalls, n |-> Len(pipeline)])
    /\ IF call = "spawn"
       THEN /\ Return(Ok(Unit), 0)
       ELSE /\ pc' = "output"
            /\ idx' = 0
            /\ UNCHANGED <<call, std, stdin, child, last_proc, reaped, ret,
                           prev>>
    /\ UNCHANGED <<pipeVars, procs, spawnCalls, tryVars>>

\* ------------------------------------------------------------------- output
output_call ==
    /\ pc = "idle"
    /\ call' = "output"
    /\ pc' = "output"
    /\ UNCHANGED <<pipeVars, localVars, procs, spawnCalls, histVars, tryVars>>

\* Mutant of Cached: output() does not look at the cache.
CacheIgnored == FALSE

\* l.205-206: match self.output { Some(_) => .. }
Cached == IsSome(output)

\* l.206: Some(_) => Ok(self.output.as_ref().unwrap())
output_cached ==
    /\ pc = "output"
    /\ Cached
    /\ Return(Ok(Unwrap(output)), 0)
    /\ UNCHANGED <<pipeVars, procs, spawnCalls, lastSpawn, tryVars>>

\* l.208: if let Some(last_proc) = self.last_spawned.take()
output_take ==
    /\ pc = "output"
    /\ ~Cached
    /\ IsSome(last_spawned)
    /\ last_proc' = last_spawned
    /\ last_spawned' = None
    /\ reaped' = TRUE
    /\ pc' = "drain"
    /\ UNCHANGED <<pipeline, output, call, idx, std, stdin, child, procs,
                   spawnCalls, histVars, tryVars>>

\* Mutant of output_none: an empty Output instead of the error.
output_none_default ==
    /\ pc = "output"
    /\ ~Cached
    /\ ~IsSome(last_spawned)
    /\ Return(Ok([status |-> 0, stdout |-> 0, stderr |-> 0]), 0)
    /\ UNCHANGED <<pipeVars, procs, spawnCalls, lastSpawn, tryVars>>

\* l.216: Err(APipeError::NoRunningProcesses)
output_none ==
    /\ pc = "output"
    /\ ~Cached
    /\ ~IsSome(last_spawned)
    /\ Return(Err(NoRunningProcesses), 0)
    /\ UNCHANGED <<pipeVars, procs, spawnCalls, lastSpawn, tryVars>>

\* Output::from(std::process::Output): the exit status and the bytes left in
\* the stdout pipe of the process (identified by the process that wrote
\* them); stderr is not piped, so nothing is captured from it.
OutputFrom(h) ==
    [status |-> procs[h.pid].status,
     stdout |-> IF h.stdout THEN h.pid ELSE 0,
     stderr |-> 0]

\* Mutant of output_drain_ok: the Output is returned without being cached.
output_drain_ok_uncached ==
    /\ pc = "drain"
    /\ WaitReturns(procs[Unwrap(last_proc).pid])
    /\ Return(Ok(OutputFrom(Unwrap(last_proc))), 0)
    /\ UNCHANGED <<pipeVars, procs, spawnCalls, lastSpawn, tryVars>>

\* l.209-214: wait_with_output() succeeds; the Output is cached and
\* self.output() is called again
output_drain_ok ==
    /\ pc = "drain"
    /\ WaitReturns(procs[Unwrap(last_proc).pid])
    /\ output' = Some(OutputFrom(Unwrap(last_proc)))
    /\ last_proc' = None
    /\ pc' = "output"
    /\ UNCHANGED <<pipeline, last_spawned, call, idx, std, stdin, child,
                   reaped, procs, spawnCalls, histVars, tryVars>>

\* l.209-211: wait_with_output() fails
output_drain_err(e) ==
    /\ pc = "drain"
    /\ Return(Err(WaitError(e)), 0)
    /\ UNCHANGED <<pipeVars, procs, spawnCalls, lastSpawn, tryVars>>

\* -------------------------------------------------------------- environment
\* Every stage is started with stdout(Stdio::piped()) (l.151).  The read end
\* of that pipe is read by the process started with it as stdin (l.144-150),
\* while that process runs, and by wait_with_output() (l.209) on the handle
\* that still holds it.
Draining(pid) ==
    \/ \E q \in DOMAIN procs :
           procs[q].state = "running" /\ procs[q].stdin = StdioFrom(pid)
    \/ /\ pc = "drain"
       /\ last_proc = Some(Child(pid))

\* A running process has more to write than its stdout pipe holds and nobody
\* reads the pipe: it blocks in the write.
proc_block(pid) ==
    /\ procs[pid].state = "running"
    /\ ~Draining(pid)
    /\ procs' = [procs EXCEPT ![pid].state = "blocked"]
    /\ UNCHANGED <<pipeVars, pc, call, localVars, spawnCalls, histVars,
                   tryVars>>

\* A process can terminate while it runs; one that is blocked in a write to
\* its stdout pipe only once the pipe is being read.
CanExit(pid) ==
    \/ procs[pid].state = "running"
    \/ procs[pid].state = "blocked" /\ Draining(pid)

\* A process terminates with some exit code.
proc_exit(pid, code) ==
    /\ CanExit(pid)
    /\ procs' = [procs EXCEPT ![pid].state = "exited", ![pid].status = code]
    /\ UNCHANGED <<pipeVars, pc, call, localVars, spawnCalls, histVars,
                   tryVars>>

\* -------------------------------------------------------------------- Spec
Commands == {NewCommand(p) : p \in Programs}
           \cup {CmdArg(NewCommand(p), a) : p \in Programs, a \in ArgVals}

ArgLists == {<<>>} \cup {<<a>> : a \in ArgVals}
           \cup {<<a, b>> : a \in ArgVals, b \in ArgVals}

Next ==
    \/ \E c \in Programs : add_command(c)
    \/ \E rhs \in Commands : bitor(rhs)
    \/ \E a \in ArgVals : arg(a)
    \/ \E as \in ArgLists : args(as)
    \/ spawn_call
    \/ spawn_with_output_call
    \/ spawn_take
    \/ spawn_stdin
    \/ spawn_start_ok
    \/ \E e \in StartErrors : spawn_start_err(e)
    \/ spawn_wait_ok
    \/ \E e \in WaitErrors : spawn_wait_err(e)
    \/ spawn_replace
    \/ spawn_return
    \/ output_call
    \/ output_cached
    \/ output_take
    \/ output_none
    \/ output_drain_ok
    \/ \E e \in WaitErrors : output_drain_err(e)
    \/ \E pid \in DOMAIN procs : proc_block(pid)
    \/ \E pid \in DOMAIN procs, code \in ExitCodes : proc_exit(pid, code)

Spec == Init /\ [][Next]_vars

\* The caller is one thread, which runs the method it is in to its end: each
\* step of spawn() and output() that can be taken is taken, system calls
\* return, and a process that can terminate does.  Whether and when the
\* caller calls a method, and whether a process fills its stdout pipe, is
\* left open.
ProgramStep ==
    \/ spawn_take
    \/ spawn_stdin
    \/ spawn_start_ok
    \/ \E e \in StartErrors : spawn_start_err(e)
    \/ spawn_wait_ok
    \/ \E e \in WaitErrors : spawn_wait_err(e)
    \/ spawn_replace
    \/ spawn_return
    \/ output_cached
    \/ output_take
    \/ output_none
    \/ output_drain_ok
    \/ \E e \in WaitErrors : output_drain_err(e)

ProcExit == \E pid \in DOMAIN procs, code \in ExitCodes : proc_exit(pid, code)

\* What the caller does between two calls.
CallerStep ==
    \/ \E c \in Programs : add_command(c)
    \/ \E rhs \in Commands : bitor(rhs)
    \/ \E a \in ArgVals : arg(a)
    \/ \E as \in ArgLists : args(as)
    \/ spawn_call
    \/ spawn_with_output_call
    \/ output_call

NextLive ==
    \/ CallerStep /\ Used' <= MaxLiveCalls
    \/ ProgramStep
    \/ \E pid \in DOMAIN procs : proc_block(pid)
    \/ ProcExit

SpecLive ==
    Init /\ [][NextLive]_vars /\ WF_vars(ProgramStep) /\ WF_vars(ProcExit)

\* ----------------------------------------------------------------- try_from
\* Texts are sequences of characters.
Texts == UNION {[1..n -> Alphabet] : n \in 0..MaxTextLen}

\* Index of the first occurrence of character c in s (0: none).
Find(s, c) ==
    IF \E i \in 1..Len(s) : s[i] = c
    THEN CHOOSE i \in 1..Len(s) : s[i] = c /\ \A j \in 1..(i - 1) : s[j] # c
    ELSE 0

\* str::split(c): the substrings between the occurrences of c
RECURSIVE Split(_, _)
Split(s, c) ==
    LET i == Find(s, c)
    IN  IF i = 0
        THEN <<s>>
        ELSE <<SubSeq(s, 1, i - 1)>> \o Split(SubSeq(s, i + 1, Len(s)), c)

\* str::split_terminator(c): as split, but a trailing empty substring is
\* skipped
SplitTerminator(s, c) ==
    LET parts == Split(s, c)
    IN  IF parts[Len(parts)] = <<>>
        THEN SubSeq(parts, 1, Len(parts) - 1)
        ELSE parts

\* The characters of a token as a string.
RECURSIVE Str(_)
Str(chars) == IF chars = <<>> THEN "" ELSE chars[1] \o Str(Tail(chars))

\* The whitespace-separated tokens of a segment.
Tokens(seg) == SelectSeq(Split(seg, " "), LAMBDA t : t # <<>>)

ParserError(seg) == [kind |-> "Parser", os |-> "", msg |-> Str(seg)]

\* Command::parse_str: a program name followed by its arguments; a segment
\* without any token is an error.
ParseStr(seg) ==
    LET t == Tokens(seg)
    IN  IF t = <<>>
        THEN Err(ParserError(seg))
        ELSE Ok([program |-> Str(t[1]),
                 args |-> [i \in 1..(Len(t) - 1) |-> Str(t[i + 1])]])

\* l.33-40: the loop over the segments, from segment k on; `?`-style return
\* of the first error
RECURSIVE ParseFrom(_, _, _)
ParseFrom(segs, k, pipe) ==
    IF k > Len(segs)
    THEN Ok(pipe)
    ELSE LET c == ParseStr(segs[k])
         IN  IF c.ok
             THEN ParseFrom(segs, k + 1,
                            [pipe EXCEPT !.pipeline = Append(@, c.val)])
             ELSE Err(c.err)

\* l.30-41
TryFrom(value) == ParseFrom(SplitTerminator(value, "|"), 1, NewPipe)

\* let pipe = CommandPipe::try_from(text): on Ok the caller holds the pipe
try_from ==
    /\ pc = "idle"
    /\ parsed = None
    /\ parsed' = Some(TryFrom(text))
    /\ IF TryFrom(text).ok
       THEN /\ pipeline' = TryFrom(text).val.pipeline
            /\ last_spawned' = TryFrom(text).val.last_spawned
            /\ output' = TryFrom(text).val.output
       ELSE UNCHANGED pipeVars
    /\ UNCHANGED <<pc, call, localVars, procs, spawnCalls, histVars, text>>

InitTry ==
    /\ text \in Texts
    /\ parsed = None
    /\ pipeline = <<>>
    /\ last_spawned = None
    /\ output = None
    /\ pc = "idle"
    /\ call = ""
    /\ idx = 0
    /\ std = None
    /\ stdin = NoStdio
    /\ child = None
    /\ last_proc = None
    /\ reaped = FALSE
    /\ procs = <<>>
    /\ spawnCalls = 0
    /\ ret = NoCall
    /\ prev = NoCall
    /\ lastSpawn = None

NextTry == try_from

SpecTry == InitTry /\ [][NextTry]_vars

\* =================================================================== claims
IsSpawnOp(op) == op \in {"spawn", "spawn_with_output"}

\* The processes started by spawn() call number c, in the order of their
\* start, and the stages they were started for.
CallProcs(c) == SelectSeq(procs, LAMBDA p : p.call = c)
StagesOf(c) == [i \in 1..Len(CallProcs(c)) |-> CallProcs(c)[i].stage]
UpTo(n) == [i \in 1..n |-> i]

\* The last finished spawn() and how it ended.
Spawned == IsSome(lastSpawn)
LastSpawn == Unwrap(lastSpawn)
SpawnOk == Spawned /\ LastSpawn.res.ok
StartFailed == Spawned /\ LastSpawn.stage > 0

\* C1: while spawn() has never been called on the pipe, whatever builder
\* calls built it, no Output is cached and every output() call returns the
\* NoRunningProcesses error.
C1_OutputBeforeSpawn ==
    spawnCalls = 0 =>
        /\ output = None
        /\ last_spawned = None
        /\ ret.op = "output" => ret.res = Err(NoRunningProcesses)

C1_Witness ==
    /\ spawnCalls = 0
    /\ ret.op = "output"
    /\ Len(pipeline) = 2
    /\ pipeline[1].args # <<>>

\* C2: after a successful spawn(), of two consecutive output() calls the
\* second returns what the first returned (the identical Output, or an error
\* when the first returned none), starts no process and consumes no handle.
C2_OutputMemoized ==
    (SpawnOk /\ prev.op = "output" /\ ret.op = "output") =>
        /\ ret.res.ok = prev.res.ok
        /\ prev.res.ok => ret.res = prev.res /\ output = Some(ret.res.val)
        /\ ret.nprocs = prev.nprocs
        /\ ~ret.reaped

C2_Witness ==
    /\ SpawnOk
    /\ prev.op = "output" /\ prev.res.ok /\ prev.reaped
    /\ ret.op = "output" /\ ret.res.ok

\* C3: within one spawn() call a stage is started only after the process of
\* every earlier stage of the call has terminated and been waited on, and
\* when spawn() returns success the call has started the stages 1..n once
\* each, in order, and waited on each of them once.
C3_SequentialStages ==
    /\ \A p, q \in DOMAIN procs :
           (p < q /\ procs[p].call = procs[q].call) =>
               /\ procs[p].state = "exited"
               /\ procs[p].waited = 1
               /\ procs[q].stage = procs[p].stage + (q - p)
    /\ SpawnOk =>
           /\ StagesOf(LastSpawn.id) = UpTo(LastSpawn.n)
           /\ \A i \in 1..LastSpawn.n :
                  /\ CallProcs(LastSpawn.id)[i].state = "exited"
                  /\ CallProcs(LastSpawn.id)[i].waited = 1

C3_Witness ==
    /\ SpawnOk
    /\ LastSpawn.n = 2
    /\ ret.op = "spawn"

\* C4: every stage's stdout is piped, the first stage of every spawn() call
\* is started with the null stdin, and every later stage with the stdout of
\* the preceding stage of the same call.
C4_StdinWiring ==
    \A q \in DOMAIN procs :
        /\ procs[q].stdout = "piped"
        /\ procs[q].stage = 1 => procs[q].stdin = StdioNull
        /\ procs[q].stage > 1 =>
               /\ procs[q].stdin = StdioFrom(q - 1)
               /\ procs[q - 1].call = procs[q].call
               /\ procs[q - 1].stage = procs[q].stage - 1

\* The Child handles the pipe owns, in its fields and in the locals of the
\* method being executed.
Held == <<last_spawned, std, child, last_proc>>
HeldCount == Cardinality({i \in DOMAIN Held : IsSome(Held[i])})

\* C5: in every state, inside spawn() and output() too, the pipe owns at most
\* one Child handle; a stage that is not the first of its call was started on
\* the stdout of the handle given up for it; a cached Output's handle is no
\* longer held.
C5_SingleHandle ==
    /\ HeldCount <= 1
    /\ IsSome(child) =>
           LET q == Unwrap(child).pid
           IN  procs[q].stage > 1 => procs[q].stdin = StdioFrom(q - 1)
    /\ IsSome(output) =>
           \A i \in DOMAIN Held :
               IsSome(Held[i]) => Unwrap(Held[i]).pid # Unwrap(output).stdout

C5_Witness ==
    /\ pc = "wait"
    /\ idx = 2
    /\ IsSome(child)
    /\ IsSome(output)

\* C6: when the start of stage k fails, spawn() returns the error at once:
\* the call has started the stages 1..k-1 and nothing else (no later stage,
\* no second attempt at k), and those processes terminated by themselves.
C6_StartFailureAborts ==
    /\ (IsSpawnOp(call) /\ pc = "loop") => StagesOf(spawnCalls) = UpTo(idx - 1)
    /\ StartFailed =>
           /\ ~LastSpawn.res.ok
           /\ StagesOf(LastSpawn.id) = UpTo(LastSpawn.stage - 1)
           /\ \A i \in 1..(LastSpawn.stage - 1) :
                  /\ CallProcs(LastSpawn.id)[i].state = "exited"
                  /\ CallProcs(LastSpawn.id)[i].status \in ExitCodes
    /\ (IsSpawnOp(ret.op) /\ ret.stage > 0) => ~ret.res.ok

C6_Witness ==
    /\ StartFailed
    /\ LastSpawn.stage = 2
    /\ LastSpawn.n = 2
    /\ IsSpawnOp(ret.op) /\ ret.stage = 2

\* C7: an output() call that follows a spawn() that failed to start a stage
\* returns an error.
C7_NoOutputAfterFailedSpawn ==
    (StartFailed /\ ret.op = "output") => ~ret.res.ok

C9_NonZeroExitIsNoError ==
    /\ (Spawned /\ ~LastSpawn.res.ok) =>
           /\ LastSpawn.os \in OsErrors
           /\ LastSpawn.res.err.os = LastSpawn.os
    /\ SpawnOk => Len(CallProcs(LastSpawn.id)) = LastSpawn.n
    /\ IsSome(output) =>
           /\ Unwrap(output).status \in ExitCodes
           /\ Unwrap(output).status = procs[Unwrap(output).stdout].status
    /\ (ret.op \in {"output", "spawn_with_output"} /\ ~ret.res.ok) =>
           \/ ret.res.err = NoRunningProcesses
           \/ ret.res.err.os \in OsErrors

C9_Witness ==
    /\ SpawnOk
    /\ LastSpawn.n = 2
    /\ CallProcs(LastSpawn.id)[1].status = 1
    /\ CallProcs(LastSpawn.id)[2].status = 1
    /\ ret.op = "output" /\ ret.res.ok /\ ret.reaped
    /\ ret.res.val.status = 1

\* The segments the `|` delimiters of a text mark off.
Segments(t) == Split(t, "|")
HasEmptySegment(t) == \E i \in DOMAIN Segments(t) : Segments(t)[i] = <<>>

\* C10: try_from fails on the empty text and on every text with an empty
\* segment (leading, middle or trailing), and a pipe it returns has as many
\* stages as the delimiters mark off.
C10_EmptySegmentRejected ==
    IsSome(parsed) =>
        /\ HasEmptySegment(text) => ~Unwrap(parsed).ok
        /\ Unwrap(parsed).ok => Len(pipeline) = Len(Segments(text))

\* The first element of a non-empty set of indices.
Min(S) == CHOOSE i \in S : \A j \in S : i <= j

\* The segments of a text that Command::parse_str rejects.
BadSegments(t) == {i \in DOMAIN Segments(t) : ~ParseStr(Segments(t)[i]).ok}

\* C11: for a text s1|s2|...|sn whose segments all parse, try_from returns a
\* pipe with exactly n stages, stage i being the Command parsed from si, with
\* no active process and no cached output; when a segment fails to parse,
\* the error of the first such segment is returned and no pipe at all.
C11_StagePerSegment ==
    IsSome(parsed) =>
        LET segs == Segments(text)
            r == Unwrap(parsed)
        IN  IF BadSegments(text) = {}
            THEN /\ r.ok
                 /\ r.val.pipeline = [i \in 1..Len(segs) |-> ParseStr(segs[i]).val]
                 /\ r.val.last_spawned = None
                 /\ r.val.output = None
                 /\ pipeline = r.val.pipeline
            ELSE /\ r = Err(ParseStr(segs[Min(BadSegments(text))]).err)
                 /\ pipeline = <<>>

\* C12: a step of add_command(program) is a step of `| Command::new(program)`
\* and the other way round: either appends Command::new(program) after the
\* stages there are, which stay as they are and in their order, and leaves
\* the active process and the cached output alone.
C12_AddCommandIsBitOr ==
    [][\A c \in Programs :
           (add_command(c) \/ bitor(NewCommand(c))) =>
               /\ add_command(c)
               /\ bitor(NewCommand(c))
               /\ Len(pipeline') = Len(pipeline) + 1
               /\ pipeline'[Len(pipeline')] = NewCommand(c)
               /\ SubSeq(pipeline', 1, Len(pipeline)) = pipeline
               /\ last_spawned' = last_spawned
               /\ output' = output]_vars

C12_Witness ==
    /\ Len(pipeline) = 2
    /\ pipeline[1] # pipeline[2]
    /\ pipeline[2] \in {NewCommand(c) : c \in Programs}
    /\ IsSome(output)
    /\ pc = "idle"

\* A step of arg or args.
ArgStep == (\E a \in ArgVals : arg(a)) \/ (\E as \in ArgLists : args(as))

\* What a step of arg or args does to the caller: without a stage it panics
\* (nothing is returned and the pipe is as it was), with one it returns.
ArgOutcome ==
    IF pipeline = <<>>
    THEN pc' = "panic" /\ ret' = ret /\ pipeline' = pipeline
    ELSE pc' = "idle" /\ Len(pipeline') = Len(pipeline)

\* C13: on a pipe without stages every call of arg and of args panics: it
\* neither returns (an error or anything else) nor goes by as a no-op; on a
\* pipe with a stage arg and args return normally, and nothing else panics.
C13_ArgPanicsWithoutStage ==
    /\ [](pc = "panic" => pipeline = <<>>)
    /\ []((pc = "idle" /\ pipeline = <<>>) =>
              /\ \A a \in ArgVals :
                     Used + 1 <= MaxCalls => ENABLED (arg(a) /\ pc' = "panic")
              /\ \A as \in ArgLists :
                     Used + Len(as) <= MaxCalls =>
                         ENABLED (args(as) /\ pc' = "panic"))
    /\ [][ArgStep => ArgOutcome]_vars
    /\ [][pc' = "panic" => ArgStep]_vars

C13_Witness ==
    /\ pc = "panic"
    /\ pipeline = <<>>
    /\ spawnCalls > 0

\* C14: over the lifetime of the pipe no stage is started as a process more
\* than once: a later spawn() does not start a stage that an earlier spawn()
\* has started.
C14_StageStartedOnce ==
    \A p, q \in DOMAIN procs : procs[p].stage = procs[q].stage => p = q

\* arg(v1), ..., arg(vk) applied to a Command one after the other.
RECURSIVE ArgEach(_, _)
ArgEach(cmd, vs) ==
    IF vs = <<>> THEN cmd ELSE ArgEach(CmdArg(cmd, Head(vs)), Tail(vs))

\* The step appends `vs`, in order, to the arguments of the last stage and
\* changes nothing else of the pipe.
ArgsAppended(vs) ==
    /\ Len(pipeline') = Len(pipeline)
    /\ pipeline'[Len(pipeline)].args = pipeline[Len(pipeline)].args \o vs
    /\ pipeline'[Len(pipeline)].program = pipeline[Len(pipeline)].program
    /\ \A i \in 1..(Len(pipeline) - 1) : pipeline'[i] = pipeline[i]
    /\ last_spawned' = last_spawned
    /\ output' = output

\* C15: on a pipe with a stage, arg(v) appends v to the arguments of the
\* last stage and args(vs) appends the elements of vs in order, which is what
\* arg(v1), ..., arg(vk) make of that stage; the program of the stage, the
\* earlier stages, the number of stages, the active process and the cached
\* output stay as they are.
C15_ArgsIsRepeatedArg ==
    /\ [](pipeline # <<>> =>
              \A vs \in ArgLists :
                  CmdArgs(LastCommand, vs) = ArgEach(LastCommand, vs))
    /\ [][/\ \A a \in ArgVals :
                 (pipeline # <<>> /\ arg(a)) => ArgsAppended(<<a>>)
          /\ \A vs \in ArgLists :
                 (pipeline # <<>> /\ args(vs)) => ArgsAppended(vs)]_vars

C15_Witness ==
    /\ Len(pipeline) = 1
    /\ pipeline[1].args = <<"x", "y">>
    /\ IsSome(output)
    /\ pc = "idle"

\* The process the last finished spawn() started for the terminal stage.
TerminalPid ==
    CHOOSE p \in DOMAIN procs :
        procs[p].call = LastSpawn.id /\ procs[p].stage = LastSpawn.n

\* C16: when spawn_with_output(), or output() right after a spawn(),
\* succeeds on a pipe with at least one stage, the Output returned holds the
\* exit status and the stdout of the process that this spawn() started for
\* the terminal stage, whatever was done with the pipe before.
C16_OutputOfThisSpawn ==
    (/\ call = ""
     /\ SpawnOk
     /\ LastSpawn.n >= 1
     /\ ret.res.ok
     /\ \/ ret.op = "spawn_with_output"
        \/ ret.op = "output" /\ prev.op = "spawn") =>
        /\ ret.res.val.stdout = TerminalPid
        /\ ret.res.val.status = procs[TerminalPid].status

\* C17: the cached Output is set at most once: no step of any operation of
\* the pipe changes or clears an Output that is cached.
C17_CacheSetOnce ==
    [][IsSome(output) => output' = output]_vars

C17_Witness ==
    /\ IsSome(output)
    /\ ret.op = "output"
    /\ prev.op = "spawn" /\ prev.res.ok
    /\ Unwrap(output).stdout < Len(procs)
    /\ Len(pipeline) > LastSpawn.n

\* The process has terminated and a wait on it has returned.
Terminated(pid) == procs[pid].state = "exited" /\ procs[pid].waited >= 1

\* C18: the handle held in last_spawned, and the handle output() has taken
\* from it, belong to a process that has terminated and been waited on, and
\* a cached Output was built from such a process.
C18_HeldHandleTerminated ==
    /\ IsSome(last_spawned) => Terminated(Unwrap(last_spawned).pid)
    /\ IsSome(last_proc) => Terminated(Unwrap(last_proc).pid)
    /\ IsSome(output) =>
           /\ Unwrap(output).stdout \in DOMAIN procs
           /\ Terminated(Unwrap(output).stdout)

C18_Witness ==
    /\ IsSome(last_spawned)
    /\ IsSome(output)
    /\ Unwrap(last_spawned).pid # Unwrap(output).stdout
    /\ pc = "idle"

\* The caller is inside the loop of spawn().
InSpawn == pc \in {"loop", "stdin", "start", "wait", "replace"}

\* Process pid is blocked in a write to its full stdout pipe.
Blocked(pid) == procs[pid].state = "blocked"
NoneBlocked == \A pid \in DOMAIN procs : ~Blocked(pid)

\* C19: a stage that has more to write to its stdout pipe than the pipe
\* holds blocks while spawn() waits for it; the stage after it has not been
\* started, nothing reads the pipe and no step is possible any more, so
\* spawn() never returns.  When every process that can terminate does,
\* every spawn() comes to its end unless a stage fills its pipe.
C19_FullPipeHangsSpawn ==
    /\ [](\A pid \in DOMAIN procs :
              Blocked(pid) =>
                  /\ pc = "wait"
                  /\ child = Some(Child(pid))
                  /\ ~Draining(pid)
                  /\ \A q \in DOMAIN procs : q <= pid
                  /\ ~ENABLED <<Next>>_vars)
    /\ InSpawn ~> (~InSpawn \/ ~NoneBlocked)

C19_Witness ==
    /\ pc = "wait"
    /\ idx = 1
    /\ Len(pipeline) = 2
    /\ Blocked(Unwrap(child).pid)

\* C20: spawn() on a pipe without stages returns Ok(()) and has started no
\* process, and the pipe still has neither an active process nor a cached
\* output; spawn_with_output() on such a pipe fails with NoRunningProcesses.
C20_SpawnWithoutStages ==
    /\ pipeline = <<>> =>
           /\ last_spawned = None
           /\ output = None
           /\ procs = <<>>
    /\ (Spawned /\ LastSpawn.n = 0) =>
           /\ LastSpawn.res = Ok(Unit)
           /\ CallProcs(LastSpawn.id) = <<>>
    /\ (call = "" /\ Spawned /\ LastSpawn.n = 0) =>
           /\ ret.op = "spawn" => ret.res = Ok(Unit)
           /\ ret.op = "spawn_with_output" => ret.res = Err(NoRunningProcesses)

C20_Witness ==
    /\ call = ""
    /\ pipeline = <<>>
    /\ prev.op = "spawn" /\ prev.res = Ok(Unit)
    /\ ret.op = "spawn_with_output" /\ ~ret.res.ok

====
